---- MODULE Spec2Model ----
(***************************************************************************)
(* State-machine model of src/live_canvas.js (class LiveCanvas): the peer  *)
(* store `users`, the local input state, the frame loop and the inbound    *)
(* message handler.  Positions are in tenths of the canvas dimension       *)
(* (5 stands for 0.5); time is in milliseconds since construction.         *)
(***************************************************************************)
EXTENDS Integers, Sequences, FiniteSets, TLC

\* ------------------------------------------------------------------ bounds
\* The last instant the model's clock reaches.
MaxNow == 10001

\* The most segments a peer draws in MirrorSpec.
MaxSegs == 2

\* ------------------------------------------------------- program constants
\* The literal of `now - user.lastSeen > 10000`.
EVICTION_WINDOW == 10000

\* The values Date.now() takes in the model: the construction time, the two
\* instants up to the window's edge, and the last instant (beyond the window).
Instants == {0, EVICTION_WINDOW - 1, EVICTION_WINDOW, MaxNow}

\* JavaScript `undefined` in a numeric field and in a string field.
UndefNum == -1
UndefStr == "undefined"

\* The local identity, generated once in the constructor.
myId == "user_7"
myColor == "hsl(7, 100%, 70%)"

\* ------------------------------------------------------------- JSON values
\* The value of the "id" member of a parsed payload: a string, a one-element
\* array holding a string, or absent (undefined).
StrId(s) == [kind |-> "string", val |-> s]
ArrId(s) == [kind |-> "array", val |-> s]
NoId == [kind |-> "undefined", val |-> ""]

InboundIds == {StrId(myId), ArrId(myId), StrId("u1"), NoId}

\* `v === s` for a string s: true only of the same string.
StrictEquals(v, s) == v.kind = "string" /\ v.val = s

\* The property key `users[v]` uses: a string is itself, an array is joined
\* (["a"] gives "a"), undefined gives "undefined".
ToPropertyKey(v) ==
    CASE v.kind = "string" -> v.val
      [] v.kind = "array" -> v.val
      [] OTHER -> UndefStr

Keys == {ToPropertyKey(v) : v \in InboundIds}

\* id.substr(0, 6)
Substr06(id) ==
    CASE id = "undefined" -> "undefi"
      [] OTHER -> id

\* The position and color members inbound payloads carry: (0.5,0.5) red, and
\* (1.2,0.7) blue, which lies outside the unit square.
InboundFields == {<<5, 5, "red">>, <<12, 7, "blue">>}

InboundTypes == {"move", "draw", "ping"}

\* message.payloadString: text that does not parse, the text "null", or the
\* text of an object.
ObjectText(type, id, x, y, color) ==
    [syntax |-> "object", type |-> type, id |-> id, x |-> x, y |-> y, color |-> color]

InvalidText == [syntax |-> "invalid", type |-> UndefStr, id |-> NoId,
                x |-> UndefNum, y |-> UndefNum, color |-> UndefStr]

NullText == [InvalidText EXCEPT !.syntax = "null"]

\* The payload texts whose object forms carry one of the ids `ids`.
Texts(ids) ==
    {InvalidText, NullText} \cup
    {ObjectText(t, i, f[1], f[2], f[3]) : t \in InboundTypes, i \in ids, f \in InboundFields}

InboundTexts == Texts(InboundIds)

\* The texts that carry an id member.
IdentifiedTexts == Texts(InboundIds \ {NoId})

\* Positions of local pointer events, already normalized by getPos.
LocalPos == {<<2, 2>>, <<3, 3>>}
NoPos == <<UndefNum, UndefNum>>

\* ------------------------------------------------------------ canvas calls
Stroke(start, end, color) ==
    [op |-> "stroke", from |-> start, to |-> end, color |-> color, label |-> ""]

Fade ==
    [op |-> "fade", from |-> NoPos, to |-> NoPos, color |-> "rgba(0, 0, 0, 0.05)", label |-> ""]

Marker(id, user) ==
    [op |-> "marker", from |-> <<user.x, user.y>>, to |-> <<user.x, user.y>>,
     color |-> user.color, label |-> Substr06(id)]

\* ------------------------------------------------------------------- state
VARIABLES
    identity,     \* this.myId and this.myColor
    users,        \* this.users: key -> {x, y, color, lastSeen}
    isDrawing,    \* this.isDrawing
    lastPos,      \* this.lastPos (NoPos until the first onDown)
    conn,         \* the bus client: "none" (Paho absent), "connecting", "connected", "closed"
    now,          \* Date.now()
    rafPending,   \* frame callbacks registered with requestAnimationFrame
    last,         \* the handler that ran last
    canvasOps,    \* the canvas calls the last handler made, in order
    intent,       \* the data object the last onMove built
    sent,         \* the messages the last handler passed to client.send
    uncaught,     \* whether an error escaped the last handler
    console,      \* what the last handler wrote to the console ("" for nothing)
    evicted,      \* the keys the last handler deleted from this.users
    sessionTail,  \* where the current drawing session's chain of segments ends
    peer,         \* a second instance of the component: its isDrawing and lastPos
    peerSegs,     \* the segments the peer rendered locally, in order
    mirrored      \* the strokes this instance rendered for the peer's events, in order

vars == <<identity, users, isDrawing, lastPos, conn, now, rafPending, last, canvasOps,
          intent, sent, uncaught, console, evicted, sessionTail,
          peer, peerSegs, mirrored>>

peerVars == <<peer, peerSegs, mirrored>>

EmptyUser == [x |-> UndefNum, y |-> UndefNum, color |-> UndefStr, lastSeen |-> UndefNum]

NoUsers == [k \in {} |-> EmptyUser]

NoIntent == [type |-> UndefStr, x |-> UndefNum, y |-> UndefNum]

\* ------------------------------------------------------ the peer store
\* users[key] = user
Put(us, key, user) ==
    [k \in DOMAIN us \cup {key} |-> IF k = key THEN user ELSE us[k]]

\* Variant of Stale with >= for >.
StaleGe(user, t) == user.lastSeen # UndefNum /\ t - user.lastSeen >= EVICTION_WINDOW

\* `now - user.lastSeen > 10000`; with lastSeen undefined the difference is
\* NaN and the comparison is false.
Stale(user, t) == user.lastSeen # UndefNum /\ t - user.lastSeen > EVICTION_WINDOW

\* `user.x !== undefined`
HasPos(user) == user.x # UndefNum

\* The order in which Object.entries lists the keys (the model fixes one).
KeyOrder == <<"u1", myId, UndefStr>>

\* ------------------------------------------------- inbound message handler
\* JSON.parse(message.payloadString): a SyntaxError, or the parsed value.
JSONParse(text) ==
    IF text.syntax = "invalid"
    THEN [threw |-> TRUE, isNull |-> FALSE, data |-> text]
    ELSE [threw |-> FALSE, isNull |-> text.syntax = "null", data |-> text]

\* Variant of RemoteStroke that strokes in the stored color.
RemoteStrokeStoredColor(user, data) ==
    IF data.type = "draw" /\ HasPos(user)
    THEN <<Stroke(<<user.x, user.y>>, <<data.x, data.y>>, user.color)>>
    ELSE <<>>

\* The stroke a draw event renders: none when the stored user has no x.
RemoteStroke(user, data) ==
    IF data.type = "draw" /\ HasPos(user)
    THEN <<Stroke(<<user.x, user.y>>, <<data.x, data.y>>, data.color)>>
    ELSE <<>>

\* Variant of HandleRemoteData whose draw branch leaves lastSeen as it was.
HandleRemoteDataDrawStale(us, data, t) ==
    LET key == ToPropertyKey(data.id)
        user == IF key \in DOMAIN us THEN us[key] ELSE EmptyUser
        updated == IF data.type \in {"move", "draw"}
                   THEN [x |-> data.x, y |-> data.y, color |-> data.color,
                         lastSeen |-> IF data.type = "draw" THEN user.lastSeen ELSE t]
                   ELSE user
    IN  [threw |-> FALSE, users |-> Put(us, key, updated), ops |-> RemoteStroke(user, data)]

\* handleRemoteData(data) at time t on the store us: the store and the canvas
\* calls it leaves.
HandleRemoteData(us, data, t) ==
    LET key == ToPropertyKey(data.id)
        user == IF key \in DOMAIN us THEN us[key] ELSE EmptyUser
        updated == IF data.type \in {"move", "draw"}
                   THEN [x |-> data.x, y |-> data.y, color |-> data.color, lastSeen |-> t]
                   ELSE user
    IN  [threw |-> FALSE, users |-> Put(us, key, updated), ops |-> RemoteStroke(user, data)]

\* The body of the try block of onMessageArrived.
TryBody(text, us, t) ==
    LET parsed == JSONParse(text)
        unchanged == [threw |-> FALSE, users |-> us, ops |-> <<>>]
    IN  IF parsed.threw THEN [unchanged EXCEPT !.threw = TRUE]
        ELSE IF parsed.isNull THEN [unchanged EXCEPT !.threw = TRUE]
        ELSE IF StrictEquals(parsed.data.id, identity.id) THEN unchanged
        ELSE HandleRemoteData(us, parsed.data, t)

\* Variant of Catch without the try block.
NoCatch(threw) == threw

\* try { ... } catch (e) { console.error(...) }: whether the error leaves
\* the handler.
Catch(threw) == FALSE

\* The handler's effect on this instance.
Deliver(text) ==
    /\ conn = "connected"
    /\ LET r == TryBody(text, users, now)
       IN  /\ users' = r.users
           /\ canvasOps' = r.ops
           /\ uncaught' = Catch(r.threw)
           /\ console' = IF r.threw THEN "MQTT Parse Error" ELSE ""
    /\ evicted' = {}
    /\ last' = "onMessageArrived"
    /\ intent' = NoIntent
    /\ sent' = <<>>
    /\ UNCHANGED <<identity, isDrawing, lastPos, conn, now, rafPending, sessionTail>>

\* client.onMessageArrived with a message from the bus.
OnMessageArrived(text) == Deliver(text) /\ UNCHANGED peerVars

\* ------------------------------------------------------------ local input
\* Variant of Stringify that spreads data last, so that its members win.
StringifyDataWins(data) ==
    ObjectText(data.type,
               IF "id" \in DOMAIN data THEN data.id ELSE StrId(identity.id),
               data.x, data.y,
               IF "color" \in DOMAIN data THEN data.color ELSE identity.color)

\* JSON.stringify({ ...data, id: this.myId, color: this.myColor })
Stringify(data) ==
    ObjectText(data.type, StrId(identity.id), data.x, data.y, identity.color)

\* Variant of Publish that forwards only the moves made in drawing mode.
PublishDrawOnly(c, data) ==
    IF c = "none" THEN [threw |-> TRUE, sent |-> <<>>]
    ELSE IF c # "connected" \/ data.type # "draw" THEN [threw |-> FALSE, sent |-> <<>>]
    ELSE [threw |-> FALSE, sent |-> <<Stringify(data)>>]

\* Variant of Publish without the isConnected() test.
PublishAlways(c, data) ==
    IF c = "none" THEN [threw |-> TRUE, sent |-> <<>>]
    ELSE [threw |-> FALSE, sent |-> <<Stringify(data)>>]

\* publish(data) with the client in state c: what it sends and whether it
\* throws (this.client is undefined when Paho was absent).
Publish(c, data) ==
    IF c = "none" THEN [threw |-> TRUE, sent |-> <<>>]
    ELSE IF c # "connected" THEN [threw |-> FALSE, sent |-> <<>>]
    ELSE [threw |-> FALSE, sent |-> <<Stringify(data)>>]

\* Variant of IntentType that never upgrades to draw.
IntentTypeConst(drawing) == "move"

\* The type of the data object onMove builds.
IntentType(drawing) == IF drawing THEN "draw" ELSE "move"

\* Variant of AnchorAfterMove that never advances the anchor.
AnchorKept(drawing, anchor, pos) == anchor

\* this.lastPos after onMove.
AnchorAfterMove(drawing, anchor, pos) == IF drawing THEN pos ELSE anchor

\* Variant of OnMove that also records the local cursor in this.users.
OnMoveTracksSelf(pos) ==
    LET data == [type |-> IntentType(isDrawing), x |-> pos[1], y |-> pos[2]]
        p == Publish(conn, data)
    IN  /\ canvasOps' = IF isDrawing THEN <<Stroke(lastPos, pos, identity.color)>> ELSE <<>>
        /\ lastPos' = AnchorAfterMove(isDrawing, lastPos, pos)
        /\ sessionTail' = IF isDrawing THEN pos ELSE sessionTail
        /\ intent' = data
        /\ sent' = p.sent
        /\ uncaught' = p.threw
        /\ console' = ""
        /\ evicted' = {}
        /\ last' = "onMove"
        /\ UNCHANGED peerVars
        /\ users' = Put(users, identity.id,
                        [x |-> pos[1], y |-> pos[2], color |-> identity.color, lastSeen |-> now])
        /\ UNCHANGED <<identity, isDrawing, conn, now, rafPending>>

\* onMove(e), with pos = getPos(e).
OnMove(pos) ==
    LET data == [type |-> IntentType(isDrawing), x |-> pos[1], y |-> pos[2]]
        p == Publish(conn, data)
    IN  /\ canvasOps' = IF isDrawing THEN <<Stroke(lastPos, pos, identity.color)>> ELSE <<>>
        /\ lastPos' = AnchorAfterMove(isDrawing, lastPos, pos)
        /\ sessionTail' = IF isDrawing THEN pos ELSE sessionTail
        /\ intent' = data
        /\ sent' = p.sent
        /\ uncaught' = p.threw
        /\ console' = ""
        /\ evicted' = {}
        /\ last' = "onMove"
        /\ UNCHANGED peerVars
        /\ UNCHANGED <<identity, users, isDrawing, conn, now, rafPending>>

OnDown(pos) ==
    /\ isDrawing' = TRUE
    /\ lastPos' = pos
    /\ sessionTail' = pos
    /\ last' = "onDown"
    /\ canvasOps' = <<>>
    /\ intent' = NoIntent
    /\ sent' = <<>>
    /\ uncaught' = FALSE
    /\ console' = ""
    /\ evicted' = {}
    /\ UNCHANGED peerVars
    /\ UNCHANGED <<identity, users, conn, now, rafPending>>

\* mouseup, mouseout and touchend all call onUp.
OnUp ==
    /\ isDrawing' = FALSE
    /\ sessionTail' = NoPos
    /\ last' = "onUp"
    /\ canvasOps' = <<>>
    /\ intent' = NoIntent
    /\ sent' = <<>>
    /\ uncaught' = FALSE
    /\ console' = ""
    /\ evicted' = {}
    /\ UNCHANGED peerVars
    /\ UNCHANGED <<identity, users, lastPos, conn, now, rafPending>>

\* -------------------------------------------------------------- frame loop
\* Variant of MarkerOps without the `user.x !== undefined` test.
RECURSIVE MarkerOpsAll(_, _)
MarkerOpsAll(us, order) ==
    IF order = <<>> THEN <<>>
    ELSE LET id == Head(order)
             rest == MarkerOpsAll(us, Tail(order))
         IN  IF id \in DOMAIN us THEN <<Marker(id, us[id])>> \o rest ELSE rest

\* The markers and name tags of a frame, for the entries that have an x.
RECURSIVE MarkerOps(_, _)
MarkerOps(us, order) ==
    IF order = <<>> THEN <<>>
    ELSE LET id == Head(order)
             rest == MarkerOps(us, Tail(order))
         IN  IF id \in DOMAIN us /\ HasPos(us[id])
             THEN <<Marker(id, us[id])>> \o rest
             ELSE rest

\* Variant of EvictStale that, having deleted an entry, passes over the next
\* one without testing it.
RECURSIVE KeptSkipping(_, _, _, _)
KeptSkipping(us, t, order, skip) ==
    IF order = <<>> THEN {}
    ELSE LET k == Head(order)
         IN  IF k \notin DOMAIN us THEN KeptSkipping(us, t, Tail(order), skip)
             ELSE IF skip THEN {k} \cup KeptSkipping(us, t, Tail(order), FALSE)
             ELSE IF Stale(us[k], t) THEN KeptSkipping(us, t, Tail(order), TRUE)
             ELSE {k} \cup KeptSkipping(us, t, Tail(order), FALSE)

EvictSkipsNext(us, t) == [k \in KeptSkipping(us, t, KeyOrder, FALSE) |-> us[k]]

\* The store after the eviction loop of a frame at time t: the entries with
\* t - lastSeen > 10000 are deleted.
EvictStale(us, t) == [k \in {j \in DOMAIN us : ~Stale(us[j], t)} |-> us[k]]

\* Variant of FrameRequests that does not register the next callback.
FrameRequestsDropped(pending) == pending - 1

\* The pending frame callbacks after a frame: the one that ran is gone, and
\* requestAnimationFrame registered one more.
FrameRequests(pending) == (pending - 1) + 1

\* One frame: register the next callback, fade, evict, draw the markers.
Animate ==
    /\ rafPending > 0
    /\ rafPending' = FrameRequests(rafPending)
    /\ LET after == EvictStale(users, now)
       IN  /\ users' = after
           /\ evicted' = DOMAIN users \ DOMAIN after
           /\ canvasOps' = <<Fade>> \o MarkerOps(after, KeyOrder)
    /\ last' = "animate"
    /\ intent' = NoIntent
    /\ sent' = <<>>
    /\ uncaught' = FALSE
    /\ console' = ""
    /\ UNCHANGED peerVars
    /\ UNCHANGED <<identity, isDrawing, lastPos, conn, now, sessionTail>>

\* ------------------------------------------------------------- environment
\* Date.now() moves on to a later instant.
ClockAdvance ==
    /\ \E t \in Instants : t > now /\ now' = t
    /\ UNCHANGED peerVars
    /\ UNCHANGED <<identity, users, isDrawing, lastPos, conn, rafPending, last, canvasOps,
                   intent, sent, uncaught, console, evicted, sessionTail>>

\* A callback of the bus client that only logs: the store, the input state
\* and the frame loop are left alone.
ClientCallback(name, from, to, text) ==
    /\ conn = from
    /\ conn' = to
    /\ last' = name
    /\ console' = text
    /\ canvasOps' = <<>>
    /\ intent' = NoIntent
    /\ sent' = <<>>
    /\ uncaught' = FALSE
    /\ evicted' = {}
    /\ UNCHANGED peerVars
    /\ UNCHANGED <<identity, users, isDrawing, lastPos, now, rafPending, sessionTail>>

\* client.connect's onSuccess: subscribed, messages may arrive.
OnConnectSuccess == ClientCallback("onSuccess", "connecting", "connected", "MQTT Connected")

\* client.connect's onFailure.
OnConnectFailure == ClientCallback("onFailure", "connecting", "closed", "MQTT Connection Failed")

\* client.onConnectionLost: logged, no reconnect.
OnConnectionLost == ClientCallback("onConnectionLost", "connected", "closed", "MQTT Connection Lost: ")

\* ----------------------------------------------------------- specification
\* After the constructor: initMQTT found Paho or not, and animate() has run
\* its first frame on the empty store.
Init ==
    /\ identity = [id |-> myId, color |-> myColor]
    /\ users = NoUsers
    /\ isDrawing = FALSE
    /\ lastPos = NoPos
    /\ conn \in {"none", "connecting"}
    /\ now = 0
    /\ rafPending = 1
    /\ last = "constructor"
    /\ canvasOps = <<Fade>>
    /\ intent = NoIntent
    /\ sent = <<>>
    /\ uncaught = FALSE
    /\ console = (IF conn = "none" THEN "Paho MQTT client not loaded" ELSE "")
    /\ evicted = {}
    /\ sessionTail = NoPos
    /\ peer = [isDrawing |-> FALSE, lastPos |-> NoPos]
    /\ peerSegs = <<>>
    /\ mirrored = <<>>

\* A message arrives from the bus; in Spec every object carries an id member.
Receive == \E text \in IdentifiedTexts : OnMessageArrived(text)

ReceiveAny == \E text \in InboundTexts : OnMessageArrived(text)

PointerMove == \E pos \in LocalPos : OnMove(pos)

PointerDown == \E pos \in LocalPos : OnDown(pos)

Next ==
    \/ Receive
    \/ PointerMove
    \/ PointerDown
    \/ OnUp
    \/ Animate
    \/ ClockAdvance
    \/ OnConnectSuccess
    \/ OnConnectFailure
    \/ OnConnectionLost

Spec == Init /\ [][Next]_vars

\* The component with the pointer at rest: every payload text, the frame
\* loop, the clock and the connection.
StoreNext ==
    \/ ReceiveAny
    \/ Animate
    \/ ClockAdvance
    \/ OnConnectSuccess
    \/ OnConnectFailure
    \/ OnConnectionLost

StoreSpec == Init /\ [][StoreNext]_vars

\* The store under fair scheduling: the frame callback is always pending, so
\* the browser runs it again, and the clock moves on.  Messages arrive only
\* while a whole eviction window still fits before the model's last instant.
LiveNext ==
    \/ (ReceiveAny /\ now + EVICTION_WINDOW < MaxNow)
    \/ Animate
    \/ ClockAdvance
    \/ OnConnectSuccess
    \/ OnConnectFailure
    \/ OnConnectionLost

LiveSpec == Init /\ [][LiveNext]_vars /\ WF_vars(Animate) /\ WF_vars(ClockAdvance)

\* ------------------------------------------------------------- two peers
\* The identity of the second instance.
peerId == "u1"
peerColor == "red"

\* The peer's onDown: no message is published.
PeerDown(pos) ==
    /\ peer' = [isDrawing |-> TRUE, lastPos |-> pos]
    /\ UNCHANGED <<peerSegs, mirrored>>
    /\ UNCHANGED <<identity, users, isDrawing, lastPos, conn, now, rafPending, last,
                   canvasOps, intent, sent, uncaught, console, evicted, sessionTail>>

\* The peer's onUp.
PeerUp ==
    /\ peer' = [peer EXCEPT !.isDrawing = FALSE]
    /\ UNCHANGED <<peerSegs, mirrored>>
    /\ UNCHANGED <<identity, users, isDrawing, lastPos, conn, now, rafPending, last,
                   canvasOps, intent, sent, uncaught, console, evicted, sessionTail>>

\* The peer's onMove, connected: it renders its segment, publishes, and the
\* bus delivers the payload to this instance's onMessageArrived at once.
PeerMove(pos) ==
    LET type == IntentType(peer.isDrawing)
        text == ObjectText(type, StrId(peerId), pos[1], pos[2], peerColor)
    IN  /\ Len(peerSegs) < MaxSegs
        /\ peerSegs' = IF peer.isDrawing
                       THEN Append(peerSegs, Stroke(peer.lastPos, pos, peerColor))
                       ELSE peerSegs
        /\ peer' = [peer EXCEPT !.lastPos = AnchorAfterMove(peer.isDrawing, peer.lastPos, pos)]
        /\ Deliver(text)
        /\ mirrored' = mirrored \o canvasOps'

MirrorNext ==
    \/ \E pos \in LocalPos : PeerDown(pos)
    \/ \E pos \in LocalPos : PeerMove(pos)
    \/ PeerUp
    \/ Animate
    \/ OnConnectSuccess

MirrorSpec == Init /\ [][MirrorNext]_vars

\* ------------------------------------------------------------------ claims
\* C1: the peer store never holds an entry whose key is the local id.
C1_NoSelfInStore == myId \notin DOMAIN users

\* A payload that does not parse, parses to null, has a type other than
\* move and draw, or has no id.
Malformed(text) ==
    \/ text.syntax # "object"
    \/ text.type \notin {"move", "draw"}
    \/ text.id = NoId

\* C2: handling a malformed payload leaves the peer store as it was.
C2_MalformedKeepsStore ==
    [][\A text \in InboundTexts :
          (Malformed(text) /\ OnMessageArrived(text)) => users' = users]_vars

\* C3: no error escapes the inbound-message handler, whatever the payload,
\* and the frame callback stays pending.
C3_HandlerReturns ==
    last = "onMessageArrived" => (~uncaught /\ rafPending > 0)

C3_Witness ==
    last = "onMessageArrived" /\ console = "MQTT Parse Error" /\ ~uncaught

\* C4: a frame tick at time now removes the entries with
\* now - lastSeen > 10000 and keeps, unchanged, those with
\* now - lastSeen <= 10000.
C4_EvictionWindow ==
    [][Animate =>
        \A k \in DOMAIN users :
            users[k].lastSeen # UndefNum =>
                /\ (now - users[k].lastSeen > EVICTION_WINDOW) => k \notin DOMAIN users'
                /\ (now - users[k].lastSeen <= EVICTION_WINDOW) =>
                       (k \in DOMAIN users' /\ users'[k] = users[k])]_vars

C4_Witness ==
    /\ last = "animate"
    /\ evicted # {}
    /\ \E k \in DOMAIN users : users[k].lastSeen # UndefNum

\* C5: with the frame loop ticking and the clock advancing, every entry of
\* the store is eventually removed.
C5_EveryEntryDecays ==
    \A k \in Keys : (k \in DOMAIN users) ~> (k \notin DOMAIN users)

\* C6: while the client reports disconnected, a pointer-move in drawing mode
\* renders the segment from the anchor to the new position, advances the
\* anchor, hands nothing to the bus and raises no error; and whatever a
\* handler sends is the payload of the move it handles, so nothing is kept
\* for later.
C6_DisconnectedMove ==
    [][/\ \A pos \in LocalPos :
            (OnMove(pos) /\ conn \in {"connecting", "closed"} /\ isDrawing) =>
                /\ canvasOps' = <<Stroke(lastPos, pos, myColor)>>
                /\ lastPos' = pos
                /\ sent' = <<>>
                /\ ~uncaught'
       /\ (sent' # <<>> /\ sent' # sent) =>
                (\E pos \in LocalPos : OnMove(pos)) /\ sent' = <<Stringify(intent')>>
      ]_vars

C6_Witness ==
    /\ last = "onMove"
    /\ conn = "closed"
    /\ sent = <<>>
    /\ Len(canvasOps) = 1
    /\ canvasOps[1].op = "stroke"
    /\ canvasOps[1].from # canvasOps[1].to
    /\ lastPos = canvasOps[1].to

\* C7: with the bus client library absent, no pointer handler raises an
\* error.
C7_LocalOnlyNoError == conn = "none" => ~uncaught

C9_DrawingMode ==
    /\ isDrawing = FALSE
    /\ [][/\ PointerDown => isDrawing'
          /\ OnUp => ~isDrawing'
          /\ ~(PointerDown \/ OnUp) => isDrawing' = isDrawing
          /\ \A pos \in LocalPos :
                OnMove(pos) =>
                    intent' = [type |-> IF isDrawing THEN "draw" ELSE "move",
                               x |-> pos[1], y |-> pos[2]]
         ]_vars

C9_Witness ==
    /\ last = "onMove"
    /\ isDrawing
    /\ intent.type = "draw"
    /\ <<intent.x, intent.y>> = lastPos

\* C10: within a drawing session each rendered segment starts where the
\* chain ends (the pointer-down position, then the end of the previous
\* segment) and ends at the move's position; a move outside drawing mode
\* renders nothing and leaves the anchor alone.
C10_SegmentChain ==
    [][\A pos \in LocalPos :
          /\ OnDown(pos) => sessionTail' = pos
          /\ (OnMove(pos) /\ isDrawing) =>
                (canvasOps' = <<Stroke(sessionTail, pos, myColor)>> /\ sessionTail' = pos)
          /\ (OnMove(pos) /\ ~isDrawing) =>
                (canvasOps' = <<>> /\ lastPos' = lastPos)
      ]_vars

C10_Witness ==
    /\ last = "onMove"
    /\ isDrawing
    /\ Len(canvasOps) = 1
    /\ canvasOps[1].op = "stroke"
    /\ canvasOps[1].from # canvasOps[1].to
    /\ canvasOps[1].to = sessionTail

\* C11: while the client is connected every pointer-move hands exactly one
\* payload to the bus, the payload of that move, during its own handling;
\* no other handler sends.
C11_EveryMoveSent ==
    [][/\ \A pos \in LocalPos :
            (OnMove(pos) /\ conn = "connected") =>
                /\ Len(sent') = 1
                /\ sent'[1].type = (IF isDrawing THEN "draw" ELSE "move")
                /\ <<sent'[1].x, sent'[1].y>> = pos
       /\ ~(\E pos \in LocalPos : OnMove(pos)) => (sent' = <<>> \/ sent' = sent)
      ]_vars

C11_Witness ==
    /\ last = "onMove"
    /\ conn = "connected"
    /\ ~isDrawing
    /\ Len(sent) = 1
    /\ sent[1].type = "move"
    /\ <<sent[1].x, sent[1].y>> \in LocalPos

\* Intents that already carry an id and a color of their own.
ForgedIntents ==
    {[type |-> t, x |-> p[1], y |-> p[2], id |-> StrId("u1"), color |-> "red"] :
        t \in {"move", "draw"}, p \in LocalPos}

\* C12: the local identity is the one set at construction and no step
\* changes it; every payload handed to the bus carries this id and color, and
\* publish's serialization puts them over an id and color of the intent.
C12_IdentityFixed ==
    [][/\ identity = [id |-> myId, color |-> myColor]
       /\ identity' = identity
       /\ \A i \in 1..Len(sent') :
             sent'[i].id = StrId(identity.id) /\ sent'[i].color = identity.color
       /\ \A d \in ForgedIntents :
             /\ Stringify(d).id = StrId(identity.id)
             /\ Stringify(d).color = identity.color
             /\ <<Stringify(d).type, Stringify(d).x, Stringify(d).y>> = <<d.type, d.x, d.y>>
      ]_vars

C12_Witness ==
    /\ last = "onMove"
    /\ isDrawing
    /\ Len(sent) = 1
    /\ sent[1].id = StrId(myId)
    /\ sent[1].color = myColor
    /\ identity = [id |-> myId, color |-> myColor]

\* C13: every stored participant that has a position has x and y within
\* [0,1] (0..10 in tenths).
C13_PositionsNormalized ==
    \A k \in DOMAIN users :
        HasPos(users[k]) =>
            (users[k].x >= 0 /\ users[k].x <= 10 /\ users[k].y >= 0 /\ users[k].y <= 10)

C15_EvictionIdempotent ==
    [][Animate => (now' = now /\ EvictStale(users', now') = users')]_vars

C15_Witness ==
    /\ last = "animate"
    /\ Cardinality(evicted) >= 2
    /\ users # NoUsers
    /\ EvictStale(users, now) = users

\* C16: a frame applies the fade first and then draws only markers: one,
\* with the name tag, for each entry that survives the frame's eviction and
\* has a position, none for an evicted entry, and no stroke.
C16_FrameDraws ==
    last = "animate" =>
        /\ Len(canvasOps) >= 1
        /\ canvasOps[1].op = "fade"
        /\ \A i \in 2..Len(canvasOps) : canvasOps[i].op = "marker"
        /\ Len(canvasOps) - 1 = Cardinality({k \in DOMAIN users : users[k].x # UndefNum})
        /\ \A k \in DOMAIN users :
              users[k].x # UndefNum =>
                  \E i \in 2..Len(canvasOps) :
                      /\ canvasOps[i].from = <<users[k].x, users[k].y>>
                      /\ canvasOps[i].color = users[k].color
                      /\ canvasOps[i].label = Substr06(k)
        /\ \A k \in evicted : k \notin DOMAIN users

C16_Witness ==
    /\ last = "animate"
    /\ evicted # {}
    /\ Len(canvasOps) >= 2
    /\ canvasOps[2].op = "marker"
    /\ \E k \in DOMAIN users : users[k].x = UndefNum

\* C17: with every payload of the peer delivered in order and no eviction,
\* the strokes rendered here for the peer are the segments the peer rendered
\* locally, in the same order.
C17_RemoteMirrorsLocal == mirrored = peerSegs

\* C18: exactly one frame callback is pending in every state: each frame
\* registers one and no handler removes or adds another.
C18_OneFramePending == rafPending = 1

C18_Witness ==
    /\ last = "animate"
    /\ rafPending = 1
    /\ evicted # {}
    /\ isDrawing

\* C19: the pointer handlers leave the peer store alone, the inbound-message
\* handler and the frame leave drawing mode and the anchor alone, and the
\* store changes only in the inbound-message handler and, by eviction, in
\* the frame.
C19_Independence ==
    [][/\ (PointerDown \/ PointerMove \/ OnUp) => users' = users
       /\ (Receive \/ Animate) => (isDrawing' = isDrawing /\ lastPos' = lastPos)
       /\ users' # users => (Receive \/ Animate)
       /\ (Animate /\ users' # users) =>
             /\ DOMAIN users' \subseteq DOMAIN users
             /\ \A k \in DOMAIN users' : users'[k] = users[k]
      ]_vars

C19_Witness ==
    /\ last = "onMove"
    /\ isDrawing
    /\ canvasOps # <<>>
    /\ \E k \in DOMAIN users : users[k].lastSeen = now

\* C20: every record of the peer store has a position, a color and a
\* lastSeen timestamp.
C20_RecordsComplete ==
    \A k \in DOMAIN users :
        /\ users[k].x # UndefNum
        /\ users[k].y # UndefNum
        /\ users[k].color # UndefStr
        /\ users[k].lastSeen # UndefNum

====
